---- MODULE Spec2Model ----
(***************************************************************************)
(* Model of the openptv-python-v2 binding layer:                           *)
(*   - find_correspondences_py / find_correspondences  (tracking_cy.pyx,   *)
(*     optv.c)                                                             *)
(*   - track_particles_py / track_particles            (tracking_cy.pyx,   *)
(*     optv.c)                                                             *)
(*   - track_forward_with_params and the parameter bridge                  *)
(*     (tracker_bridge.pyx, optv.h)                                        *)
(*   - the forward/backward merge and the orientation refiner, whose       *)
(*     implementations are only declared in the .pxd files                 *)
(*   - projection and back-projection (img_coord, point_position), also    *)
(*     only declared in the .pxd files                                     *)
(*   - the parameter bridge pairs *_params_to_c / *_params_from_c          *)
(*     (optv.h, unnamed/part_010)                                          *)
(*   - the import of the package, openptv/__init__.py                      *)
(*     (openptv/docs/GIT_WORKFLOW.md 442-481)                              *)
(* Every operation is a small program-counter machine; one behaviour       *)
(* exercises one operation (the variable api says which).                  *)
(***************************************************************************)
EXTENDS Integers, Sequences, FiniteSets, TLC

VARIABLES
    api,                \* which entry point this behaviour exercises
    \* ---- find_correspondences_py
    c_pc,               \* position inside find_correspondences_py
    points1, points2,   \* the two input arrays, rows <<x, y>>
    c_points1, c_points2, \* the malloc'd point2d_t buffers
    num_correspondences,  \* value returned by the C function
    c_result,           \* the array handed back to Python (rows <<i, j>>)
    c_shape,            \* the shape of that array
    c_exc,              \* exception raised by the call, "none" if none
    \* ---- track_particles_py
    t_pc,               \* position inside track_particles_py
    particles,          \* the input array, rows <<x, y, z>>
    max_link_distance,  \* the linking radius passed by the caller
    c_particles,        \* the malloc'd point3d_t buffer
    num_trajectories,   \* value returned by the C function
    t_result,           \* the list of trajectories handed back to Python
    t_exc,              \* exception raised by the call, "none" if none
    t_run,              \* 1: first call, 2: the call repeated on a reordered array
    particles0,         \* the array of the first call
    t_first,            \* the list the first call returned
    \* ---- track_forward_with_params
    f_pc,               \* position inside track_forward_with_params
    targets,            \* per frame, the sequence of candidate positions
    track_params,       \* the dictionary track_params.to_c_struct() returns
    vol_params,         \* the dictionary vol_params.to_c_struct() returns
    c_track_params,     \* the malloc'd track_par struct
    c_vol_params,       \* the malloc'd volume_par struct
    run,                \* the tracking_run: "none", "started", "finished"
    results,            \* the dictionary handed back to Python
    f_exc,              \* how the call ended abnormally, "none" if it did not
    \* ---- forward run, backward run and their merge
    m_pc,               \* "start", then "merged"
    fwd_done, bwd_done, \* whether each directional run has finished
    fwd_links,          \* per trajectory step, the candidate the forward run linked
    bwd_links,          \* per trajectory step, the candidate the backward run linked
    merged,             \* per trajectory step, the link of the merged result
    cands,              \* per frame, the candidates of that frame (never written)
    fwd_frame,          \* the frame the forward run handles next
    bwd_frame,          \* the frame the backward run handles next
    \* ---- orientation refiner
    o_pc,               \* "entry", "iterating", "done"
    nfix,               \* number of reference points
    flags,              \* the enabled (free) parameters
    singular,           \* whether the normal-equations matrix of the data is singular
    contracting,        \* whether the updates of this data set shrink
    norm,               \* norm of the current parameter update
    itnum,              \* iterations performed
    cal,                \* the working copy of the calibration
    cal_in,             \* the caller's calibration
    o_status,           \* "none", "converged", "maxiter", "degenerate"
    \* ---- projection and back-projection
    g_pc,               \* "entry", "projected", "done"
    g_pos,              \* the 3D point handed to the projection
    g_cal,              \* the camera: focal length cc, half-width of its field
    g_pixel,            \* what the projection returned
    g_res,              \* the 3D point the back-projection returned
    g_used,             \* whether the caller used the pixel coordinates
    g_exc,              \* error raised by the projection, "none" if none
    \* ---- parameter bridge, one *_to_c / *_from_c pair per behaviour
    b_pc,               \* "entry", "converted", "back", "crashed", "raised"
    b_kind,             \* which pair is exercised
    b_params,           \* the dictionary params.to_c_struct() returns
    b_struct,           \* the malloc'd C struct
    b_back,             \* the dictionary *_from_c hands to from_c_struct
    b_exc,              \* how the conversion ended abnormally, "none" if not
    \* ---- import of the package (openptv/__init__.py)
    i_pc,               \* position inside the module body
    binding,            \* what importing the Cython binding does
    constants_ok,       \* whether openptv.constants can be imported
    warn_filter,        \* the warnings filter in force
    i_using_cython,     \* the module global _using_cython
    i_bound,            \* names bound in the package namespace
    i_warned,           \* whether the fallback warning was shown
    i_exc,              \* exception that ended the import, "none" if none
    i_calls,            \* calls of using_cython() made so far
    i_ret               \* value of the last call of using_cython()

corrVars == <<c_pc, points1, points2, c_points1, c_points2,
              num_correspondences, c_result, c_shape, c_exc>>

trackVars == <<t_pc, particles, max_link_distance, c_particles,
               num_trajectories, t_result, t_exc, t_run, particles0, t_first>>

fwdVars == <<f_pc, targets, track_params, vol_params, c_track_params,
             c_vol_params, run, results, f_exc>>

mergeVars == <<m_pc, fwd_done, bwd_done, fwd_links, bwd_links, merged,
              cands, fwd_frame, bwd_frame>>

orientVars == <<o_pc, nfix, flags, singular, contracting, norm, itnum,
                cal, cal_in, o_status>>

geomVars == <<g_pc, g_pos, g_cal, g_pixel, g_res, g_used, g_exc>>

bridgeVars == <<b_pc, b_kind, b_params, b_struct, b_back, b_exc>>

importVars == <<i_pc, binding, constants_ok, warn_filter, i_using_cython,
                i_bound, i_warned, i_exc, i_calls, i_ret>>

vars == <<api, corrVars, trackVars, fwdVars, mergeVars, orientVars,
          geomVars, bridgeVars, importVars>>

\* what an operation of one entry point leaves alone
notCorr == <<api, trackVars, fwdVars, mergeVars, orientVars,
             geomVars, bridgeVars, importVars>>
notTrack == <<api, corrVars, fwdVars, mergeVars, orientVars,
              geomVars, bridgeVars, importVars>>
notFwd == <<api, corrVars, trackVars, mergeVars, orientVars,
            geomVars, bridgeVars, importVars>>
notMerge == <<api, corrVars, trackVars, fwdVars, orientVars,
              geomVars, bridgeVars, importVars>>
notOrient == <<api, corrVars, trackVars, fwdVars, mergeVars,
               geomVars, bridgeVars, importVars>>
notGeom == <<api, corrVars, trackVars, fwdVars, mergeVars,
             orientVars, bridgeVars, importVars>>
notBridge == <<api, corrVars, trackVars, fwdVars, mergeVars,
               orientVars, geomVars, importVars>>
notImport == <<api, corrVars, trackVars, fwdVars, mergeVars,
               orientVars, geomVars, bridgeVars>>

----------------------------------------------------------------------------
\* Bounds of the model

\* longest input array of find_correspondences_py
MaxPoints == 2

\* pixel coordinates used for the synthetic detections
Coord == {0, 1}

Points2D == {<<x, y>> : x \in Coord, y \in Coord}

SeqsUpTo(S, n) == UNION {[1..k -> S] : k \in 0..n}

\* rows of an array that has one column only
ShortPoints2D == {<<x>> : x \in Coord}

\* every row of the array has at least n columns (shape[1] >= n)
HasColumns(arr, n) == \A k \in DOMAIN arr : Len(arr[k]) >= n

----------------------------------------------------------------------------
\* C heap buffers: a buffer is unallocated, NULL (malloc failed), live or freed.

NoBuf == [st |-> "unalloc", data |-> <<>>]

\* malloc(n * sizeof(T)): NULL when the allocation fails, else n
\* uninitialised cells.  A zero-byte request may also return NULL.
Malloc(ok, n) ==
    IF ok THEN [st |-> "live", data |-> [k \in 1..n |-> "uninit"]]
          ELSE [st |-> "null", data |-> <<>>]

\* free(p) of a live buffer
Free(buf) == [st |-> "freed", data |-> <<>>]

----------------------------------------------------------------------------
\* optv.c: find_correspondences is a placeholder that reports no
\* correspondence and never writes its output argument.
find_correspondences(pts1, pts2, num_points1, num_points2) == 0

\* A plausible slip of the wrapper: hand back every index pair.
find_correspondences_py_return_allpairs(pts1, pts2, n) ==
    LET pairs == {<<i, j>> : i \in 0..(Len(pts1) - 1), j \in 0..(Len(pts2) - 1)}
        RECURSIVE ToSeq(_)
        ToSeq(S) == IF S = {} THEN <<>>
                    ELSE LET p == CHOOSE q \in S :
                                    \A r \in S : q[1] < r[1] \/ (q[1] = r[1] /\ q[2] <= r[2])
                         IN <<p>> \o ToSeq(S \ {p})
    IN ToSeq(pairs)

\* tracking_cy.pyx: the value find_correspondences_py returns, np.array([]),
\* whatever count the C function reported.
find_correspondences_py_return(pts1, pts2, n) == <<>>

\* tracking_cy.pyx 124: the shape of np.array([]), a one-dimensional array
\* of length 0, whatever count the C function reported.
find_correspondences_py_shape(n) == <<0>>

\* cdef point2d_t *c_points1/2 = malloc(...)     (tracking_cy.pyx 87-91)
fc_Malloc ==
    /\ api = "corr" /\ c_pc = "entry"
    /\ \E ok1 \in BOOLEAN, ok2 \in BOOLEAN :
          /\ c_points1' = Malloc(ok1, Len(points1))
          /\ c_points2' = Malloc(ok2, Len(points2))
    /\ c_pc' = "allocated"
    /\ UNCHANGED notCorr /\ UNCHANGED <<points1, points2, num_correspondences, c_result, c_shape, c_exc>>

\* if c_points1 is NULL or c_points2 is NULL: free the other, raise MemoryError
fc_AllocFailed ==
    /\ api = "corr" /\ c_pc = "allocated"
    /\ c_points1.st = "null" \/ c_points2.st = "null"
    /\ c_points1' = IF c_points1.st # "null" THEN Free(c_points1) ELSE c_points1
    /\ c_points2' = IF c_points2.st # "null" THEN Free(c_points2) ELSE c_points2
    /\ c_exc' = "MemoryError"
    /\ c_pc' = "raised"
    /\ UNCHANGED notCorr /\ UNCHANGED <<points1, points2, num_correspondences, c_result, c_shape>>

\* both allocations succeeded: the two copy loops (tracking_cy.pyx 100-107)
fc_Copy ==
    /\ api = "corr" /\ c_pc = "allocated"
    /\ c_points1.st = "live" /\ c_points2.st = "live"
    /\ HasColumns(points1, 2) /\ HasColumns(points2, 2)
    /\ c_points1' = [c_points1 EXCEPT !.data = points1]
    /\ c_points2' = [c_points2 EXCEPT !.data = points2]
    /\ c_pc' = "copied"
    /\ UNCHANGED notCorr /\ UNCHANGED <<points1, points2, num_correspondences, c_result, c_shape, c_exc>>

\* points1[i, 1] or points2[i, 1] on an array with fewer than 2 columns:
\* the bounds-tested index raises IndexError out of the copy loop
\* (tracking_cy.pyx 101-107); no statement between the loop and the end of
\* the function runs, the free calls of lines 119-120 included.  The cells
\* written before the raise are not kept in the model.
fc_CopyRaises ==
    /\ api = "corr" /\ c_pc = "allocated"
    /\ c_points1.st = "live" /\ c_points2.st = "live"
    /\ ~(HasColumns(points1, 2) /\ HasColumns(points2, 2))
    /\ c_exc' = "IndexError"
    /\ c_pc' = "raised"
    /\ UNCHANGED notCorr
    /\ UNCHANGED <<points1, points2, c_points1, c_points2, num_correspondences,
                   c_result, c_shape>>

\* num_correspondences = find_correspondences(...)   (tracking_cy.pyx 109-116)
fc_CallC ==
    /\ api = "corr" /\ c_pc = "copied"
    /\ num_correspondences' =
          find_correspondences(c_points1.data, c_points2.data,
                               Len(points1), Len(points2))
    /\ c_pc' = "called"
    /\ UNCHANGED notCorr /\ UNCHANGED <<points1, points2, c_points1, c_points2, c_result,
                                     c_shape, c_exc>>

\* free both buffers and return the array   (tracking_cy.pyx 118-124)
fc_Return ==
    /\ api = "corr" /\ c_pc = "called"
    /\ c_points1' = Free(c_points1)
    /\ c_points2' = Free(c_points2)
    /\ c_result' = find_correspondences_py_return(points1, points2, num_correspondences)
    /\ c_shape' = find_correspondences_py_shape(num_correspondences)
    /\ c_pc' = "done"
    /\ UNCHANGED notCorr /\ UNCHANGED <<points1, points2, num_correspondences, c_exc>>

\* no array has been returned yet
NoShape == <<-1>>

InitCorr ==
    /\ c_pc = "entry"
    /\ points1 \in SeqsUpTo(Points2D, MaxPoints)
                   \cup SeqsUpTo(ShortPoints2D, MaxPoints)
    /\ points2 \in SeqsUpTo(Points2D, MaxPoints)
                   \cup SeqsUpTo(ShortPoints2D, MaxPoints)
    /\ c_points1 = NoBuf /\ c_points2 = NoBuf
    /\ num_correspondences = 0
    /\ c_result = <<>>
    /\ c_shape = NoShape
    /\ c_exc = "none"

QuietCorr ==
    /\ c_pc = "off"
    /\ points1 = <<>> /\ points2 = <<>>
    /\ c_points1 = NoBuf /\ c_points2 = NoBuf
    /\ num_correspondences = 0
    /\ c_result = <<>>
    /\ c_shape = NoShape
    /\ c_exc = "none"

NextCorr == fc_Malloc \/ fc_AllocFailed \/ fc_Copy \/ fc_CopyRaises
            \/ fc_CallC \/ fc_Return

----------------------------------------------------------------------------
\* track_particles_py (tracking_cy.pyx) and track_particles (optv.c)

\* longest input array of track_particles_py
MaxParticles == 5

Velocities == {<<0, 0, 0>>, <<1, 0, 0>>, <<1, 1, 0>>, <<2, 0, 0>>}

LinkDistances == {1, 3}

Sub3(p, q) == <<p[1] - q[1], p[2] - q[2], p[3] - q[3]>>
Scale3(k, v) == <<k * v[1], k * v[2], k * v[3]>>
Norm2(v) == v[1] * v[1] + v[2] * v[2] + v[3] * v[3]

\* n positions of one particle that starts at the origin and moves with
\* velocity v, one position per frame
Line(v, n) == [k \in 1..n |-> Scale3(k - 1, v)]

\* n rows of an array that has two columns only
ShortLine(n) == [k \in 1..n |-> <<0, 0>>]

\* optv.c: track_particles is a placeholder that finds no trajectory and
\* never writes its output argument.
track_particles(parts, num_particles, mld) == 0

\* A plausible first implementation: chain the rows in the order they are
\* enumerated into one trajectory of particle indices.
track_particles_py_return_chained(parts, n) ==
    IF Len(parts) = 0 THEN <<>> ELSE << [k \in 1..Len(parts) |-> k - 1] >>

\* tracking_cy.pyx: the value track_particles_py returns, the empty list,
\* whatever count the C function reported.
track_particles_py_return(parts, n) == <<>>

\* cdef point3d_t *c_particles = malloc(...)     (tracking_cy.pyx 43-44)
tp_Malloc ==
    /\ api = "track" /\ t_pc = "entry"
    /\ \E ok \in BOOLEAN : c_particles' = Malloc(ok, Len(particles))
    /\ t_pc' = "allocated"
    /\ UNCHANGED notTrack
    /\ UNCHANGED <<particles, max_link_distance, num_trajectories, t_result,
                   t_exc, t_run, particles0, t_first>>

\* if c_particles is NULL: raise MemoryError      (tracking_cy.pyx 46-47)
tp_AllocFailed ==
    /\ api = "track" /\ t_pc = "allocated"
    /\ c_particles.st = "null"
    /\ t_exc' = "MemoryError"
    /\ t_pc' = "raised"
    /\ UNCHANGED notTrack
    /\ UNCHANGED <<particles, max_link_distance, c_particles, num_trajectories,
                   t_result, t_run, particles0, t_first>>

\* the copy loop                                  (tracking_cy.pyx 49-53)
tp_Copy ==
    /\ api = "track" /\ t_pc = "allocated"
    /\ c_particles.st = "live"
    /\ HasColumns(particles, 3)
    /\ c_particles' = [c_particles EXCEPT !.data = particles]
    /\ t_pc' = "copied"
    /\ UNCHANGED notTrack
    /\ UNCHANGED <<particles, max_link_distance, num_trajectories, t_result,
                   t_exc, t_run, particles0, t_first>>

\* particles[i, 2] on an array with fewer than 3 columns: the bounds-tested
\* index raises IndexError out of the copy loop (tracking_cy.pyx 50-53); the
\* free of line 64 is not reached.
tp_CopyRaises ==
    /\ api = "track" /\ t_pc = "allocated"
    /\ c_particles.st = "live"
    /\ ~HasColumns(particles, 3)
    /\ t_exc' = "IndexError"
    /\ t_pc' = "raised"
    /\ UNCHANGED notTrack
    /\ UNCHANGED <<particles, max_link_distance, c_particles, num_trajectories,
                   t_result, t_run, particles0, t_first>>

\* num_trajectories = track_particles(...)        (tracking_cy.pyx 55-61)
tp_CallC ==
    /\ api = "track" /\ t_pc = "copied"
    /\ num_trajectories' =
          track_particles(c_particles.data, Len(particles), max_link_distance)
    /\ t_pc' = "called"
    /\ UNCHANGED notTrack
    /\ UNCHANGED <<particles, max_link_distance, c_particles, t_result,
                   t_exc, t_run, particles0, t_first>>

\* free(c_particles); return []                   (tracking_cy.pyx 63-68)
tp_Return ==
    /\ api = "track" /\ t_pc = "called"
    /\ c_particles' = Free(c_particles)
    /\ t_result' = track_particles_py_return(particles, num_trajectories)
    /\ t_pc' = "done"
    /\ UNCHANGED notTrack
    /\ UNCHANGED <<particles, max_link_distance, num_trajectories,
                   t_exc, t_run, particles0, t_first>>

\* The caller runs the tracker again on the same particles, enumerated in
\* another order, with the same max_link_distance.
tp_CallReordered ==
    /\ api = "track" /\ t_pc = "done" /\ t_run = 1
    /\ \E f \in Permutations(1..Len(particles)) :
          particles' = [k \in 1..Len(particles) |-> particles[f[k]]]
    /\ t_first' = t_result
    /\ t_run' = 2
    /\ c_particles' = NoBuf
    /\ num_trajectories' = 0
    /\ t_result' = <<>>
    /\ t_pc' = "entry"
    /\ UNCHANGED notTrack
    /\ UNCHANGED <<max_link_distance, t_exc, particles0>>

InitTrack ==
    /\ t_pc = "entry"
    /\ \E n \in 0..MaxParticles :
          \/ \E v \in Velocities : particles = Line(v, n)
          \/ particles = ShortLine(n)
    /\ max_link_distance \in LinkDistances
    /\ c_particles = NoBuf
    /\ num_trajectories = 0
    /\ t_result = <<>>
    /\ t_exc = "none"
    /\ t_run = 1
    /\ particles0 = particles
    /\ t_first = <<>>

QuietTrack ==
    /\ t_pc = "off"
    /\ particles = <<>>
    /\ max_link_distance = 0
    /\ c_particles = NoBuf
    /\ num_trajectories = 0
    /\ t_result = <<>>
    /\ t_exc = "none"
    /\ t_run = 1
    /\ particles0 = <<>>
    /\ t_first = <<>>

NextTrack == tp_Malloc \/ tp_AllocFailed \/ tp_Copy \/ tp_CopyRaises
             \/ tp_CallC \/ tp_Return
             \/ tp_CallReordered

----------------------------------------------------------------------------
\* track_forward_with_params (tracker_bridge.pyx) and the parameter bridge
\* functions tracking_params_to_c and volume_params_to_c (optv.h)

\* longest frame sequence handed to track_forward_with_params
MaxFrames == 5

\* values of the velocity limits dvxmin and dvxmax
VelocityLimits == {-1, 1}

\* the step of the synthetic particle between two frames
FrameStep == <<1, 0, 0>>

\* The frames of a sequence of n frames in which the particle is present in
\* the frames of the set seen, at the position its constant velocity gives.
Frames(n, seen) ==
    [k \in 1..n |-> IF k \in seen THEN << Scale3(k - 1, FrameStep) >> ELSE <<>>]

TrackingDicts ==
    [dvxmin : VelocityLimits, dvxmax : VelocityLimits,
     dvymin : {-1}, dvymax : {1}, dvzmin : {-1}, dvzmax : {1},
     dangle : {100}, dacc : {1}, add : {0, 1},
     dsumg : {0}, dn : {0}, dnx : {0}, dny : {0}]

VolumeDicts ==
    [X_lay : {<<-40>>, <<-40, 40>>},
     Zmin_lay : {<<-10, -10>>, <<20, -10>>}, Zmax_lay : {<<10, 10>>},
     cnx : {2}, cny : {2}, cn : {2}, csumg : {2}, corrmin : {33}, eps0 : {1}]

\* optv.h 84-114: the struct tracking_params_to_c fills, field by field,
\* from the dictionary.
tracking_params_to_c(d) ==
    [dvxmin |-> d.dvxmin, dvxmax |-> d.dvxmax,
     dvymin |-> d.dvymin, dvymax |-> d.dvymax,
     dvzmin |-> d.dvzmin, dvzmax |-> d.dvzmax,
     dangle |-> d.dangle, dacc |-> d.dacc, add |-> d.add,
     dsumg |-> d.dsumg, dn |-> d.dn, dnx |-> d.dnx, dny |-> d.dny]

\* optv.h 207-235: the struct volume_params_to_c fills; the loop reads
\* entries 0 and 1 of the three layer lists.
volume_params_to_c(d) ==
    [X_lay |-> <<d.X_lay[1], d.X_lay[2]>>,
     Zmin_lay |-> <<d.Zmin_lay[1], d.Zmin_lay[2]>>,
     Zmax_lay |-> <<d.Zmax_lay[1], d.Zmax_lay[2]>>,
     cnx |-> d.cnx, cny |-> d.cny, cn |-> d.cn,
     csumg |-> d.csumg, corrmin |-> d.corrmin, eps0 |-> d.eps0]

\* the loop of volume_params_to_c indexes past the end of a short list
VolumeListsTooShort(d) ==
    Len(d.X_lay) < 2 \/ Len(d.Zmin_lay) < 2 \/ Len(d.Zmax_lay) < 2

\* tracker_bridge.pyx 52-56: the dictionary of results, built from literals
forward_results(tgts, run_info) == [links |-> 0, lost |-> 0, added |-> 0]

\* c_track_params = tracking_params_to_c(track_params)   (tracker_bridge.pyx 41)
\* The struct is written without a NULL test: a failed malloc ends in a
\* write through NULL.
tf_ConvertTrack ==
    /\ api = "fwd" /\ f_pc = "entry"
    /\ \E ok \in BOOLEAN :
          IF ok
          THEN /\ c_track_params' = [st |-> "live", data |-> tracking_params_to_c(track_params)]
               /\ f_pc' = "track_converted"
               /\ f_exc' = f_exc
          ELSE /\ c_track_params' = [st |-> "null", data |-> <<>>]
               /\ f_pc' = "crashed"
               /\ f_exc' = "NullWrite"
    /\ UNCHANGED notFwd
    /\ UNCHANGED <<targets, track_params, vol_params, c_vol_params, run, results>>

\* A conversion that also writes normalised depth bounds back into the
\* caller's dictionary.
tf_ConvertVol_normalising ==
    /\ api = "fwd" /\ f_pc = "track_converted"
    /\ ~VolumeListsTooShort(vol_params)
    /\ vol_params' =
          [vol_params EXCEPT !.Zmin_lay =
              [i \in 1..2 |-> IF vol_params.Zmin_lay[i] > vol_params.Zmax_lay[i]
                              THEN vol_params.Zmax_lay[i]
                              ELSE vol_params.Zmin_lay[i]]]
    /\ c_vol_params' = [st |-> "live", data |-> volume_params_to_c(vol_params')]
    /\ f_pc' = "converted"
    /\ UNCHANGED notFwd
    /\ UNCHANGED <<targets, track_params, c_track_params, run, results, f_exc>>

\* c_vol_params = volume_params_to_c(vol_params)          (tracker_bridge.pyx 42)
tf_ConvertVol ==
    /\ api = "fwd" /\ f_pc = "track_converted"
    /\ \E ok \in BOOLEAN :
          IF ~ok
          THEN /\ c_vol_params' = [st |-> "null", data |-> <<>>]
               /\ f_pc' = "crashed"
               /\ f_exc' = "NullWrite"
          ELSE IF VolumeListsTooShort(vol_params)
          THEN /\ c_vol_params' = [st |-> "live", data |-> <<>>]
               /\ f_pc' = "raised"
               /\ f_exc' = "IndexError"
          ELSE /\ c_vol_params' = [st |-> "live", data |-> volume_params_to_c(vol_params)]
               /\ f_pc' = "converted"
               /\ f_exc' = f_exc
    /\ UNCHANGED notFwd
    /\ UNCHANGED <<targets, track_params, vol_params, c_track_params, run, results>>

\* run = track_forward_start(targets, c_track_params, c_vol_params)   (45)
tf_Start ==
    /\ api = "fwd" /\ f_pc = "converted"
    /\ run' = "started"
    /\ f_pc' = "started"
    /\ UNCHANGED notFwd
    /\ UNCHANGED <<targets, track_params, vol_params, c_track_params,
                   c_vol_params, results, f_exc>>

\* step = 0; status = 0; results = {...}: no frame is stepped through (48-56)
tf_Results ==
    /\ api = "fwd" /\ f_pc = "started"
    /\ results' = forward_results(targets, run)
    /\ f_pc' = "results"
    /\ UNCHANGED notFwd
    /\ UNCHANGED <<targets, track_params, vol_params, c_track_params,
                   c_vol_params, run, f_exc>>

\* trackcorr_c_finish(run, c_track_params)                 (59)
tf_Finish ==
    /\ api = "fwd" /\ f_pc = "results"
    /\ run' = "finished"
    /\ f_pc' = "finished"
    /\ UNCHANGED notFwd
    /\ UNCHANGED <<targets, track_params, vol_params, c_track_params,
                   c_vol_params, results, f_exc>>

\* free(c_track_params); free(c_vol_params); return results   (60-64)
tf_Return ==
    /\ api = "fwd" /\ f_pc = "finished"
    /\ c_track_params' = Free(c_track_params)
    /\ c_vol_params' = Free(c_vol_params)
    /\ f_pc' = "done"
    /\ UNCHANGED notFwd
    /\ UNCHANGED <<targets, track_params, vol_params, run, results, f_exc>>

NoResults == [links |-> -1, lost |-> -1, added |-> -1]

InitFwd ==
    /\ f_pc = "entry"
    /\ \E n \in 0..MaxFrames : \E seen \in SUBSET (1..n) : targets = Frames(n, seen)
    /\ track_params \in TrackingDicts
    /\ vol_params \in VolumeDicts
    /\ c_track_params = NoBuf /\ c_vol_params = NoBuf
    /\ run = "none"
    /\ results = NoResults
    /\ f_exc = "none"

QuietFwd ==
    /\ f_pc = "off"
    /\ targets = <<>>
    /\ track_params = <<>> /\ vol_params = <<>>
    /\ c_track_params = NoBuf /\ c_vol_params = NoBuf
    /\ run = "none"
    /\ results = NoResults
    /\ f_exc = "none"

NextFwd == tf_ConvertTrack \/ tf_ConvertVol \/ tf_Start \/ tf_Results
           \/ tf_Finish \/ tf_Return

----------------------------------------------------------------------------
\* Forward run, backward run and merge.  track_forward_using_parameters and
\* track_backward_using_parameters are declared in coptv/orientation.pxd; the
\* runs and the merge follow sections 4.3 and 5 of the design: two
\* instantiations of the same frame-sequential linker, one over the reversed
\* frame index, each with its own links, over the same candidate data; the
\* merge keeps the link both directions agree on, else the forward link.

\* trajectory steps of a sequence, and candidates per frame
MaxSteps == 3
MaxCands == 2

\* no candidate linked at a step
NoLink == 0

Steps == 1..MaxSteps
Links == 0..MaxCands

\* A merge that also keeps a link only the backward run found.
merge_links_union(f, b) ==
    [s \in DOMAIN f |-> IF f[s] = NoLink THEN b[s] ELSE f[s]]

\* the merge function: the agreed link where both agree, else the forward link
merge_links(f, b) ==
    [s \in DOMAIN f |-> IF f[s] = b[s] THEN b[s] ELSE f[s]]

\* One frame step of the trajectory linker, a function of the frame's
\* candidates and of the run's own previous link: a trajectory that has a
\* link keeps it when the candidate is still there and is lost otherwise;
\* with no trajectory, the first candidate of the frame starts one.
link_step(D, prev) ==
    IF prev # NoLink THEN (IF prev \in D THEN prev ELSE NoLink)
    ELSE IF D = {} THEN NoLink
    ELSE CHOOSE c \in D : \A e \in D : c <= e

\* the link of frame s in a forward run made alone, frames 1..MaxSteps
RECURSIVE forward_alone(_, _)
forward_alone(c, s) ==
    link_step(c[s], IF s = 1 THEN NoLink ELSE forward_alone(c, s - 1))

\* the link of frame s in a backward run made alone, frames MaxSteps..1
RECURSIVE backward_alone(_, _)
backward_alone(c, s) ==
    link_step(c[s], IF s = MaxSteps THEN NoLink ELSE backward_alone(c, s + 1))

\* A forward frame step that takes over the link the backward run has
\* already made for the frame, where there is one.
track_forward_sharing_links ==
    /\ api = "merge" /\ m_pc = "start" /\ ~fwd_done
    /\ fwd_links' = [fwd_links EXCEPT ![fwd_frame] =
           IF bwd_links[fwd_frame] # NoLink THEN bwd_links[fwd_frame]
           ELSE link_step(cands[fwd_frame],
                          IF fwd_frame = 1 THEN NoLink
                          ELSE fwd_links[fwd_frame - 1])]
    /\ fwd_done' = (fwd_frame = MaxSteps)
    /\ fwd_frame' = IF fwd_frame = MaxSteps THEN fwd_frame ELSE fwd_frame + 1
    /\ UNCHANGED notMerge
    /\ UNCHANGED <<m_pc, bwd_done, bwd_links, merged, cands, bwd_frame>>

\* one frame step of the forward run
track_forward_using_parameters ==
    /\ api = "merge" /\ m_pc = "start" /\ ~fwd_done
    /\ fwd_links' = [fwd_links EXCEPT ![fwd_frame] =
           link_step(cands[fwd_frame],
                     IF fwd_frame = 1 THEN NoLink
                     ELSE fwd_links[fwd_frame - 1])]
    /\ fwd_done' = (fwd_frame = MaxSteps)
    /\ fwd_frame' = IF fwd_frame = MaxSteps THEN fwd_frame ELSE fwd_frame + 1
    /\ UNCHANGED notMerge
    /\ UNCHANGED <<m_pc, bwd_done, bwd_links, merged, cands, bwd_frame>>

\* one frame step of the backward run
track_backward_using_parameters ==
    /\ api = "merge" /\ m_pc = "start" /\ ~bwd_done
    /\ bwd_links' = [bwd_links EXCEPT ![bwd_frame] =
           link_step(cands[bwd_frame],
                     IF bwd_frame = MaxSteps THEN NoLink
                     ELSE bwd_links[bwd_frame + 1])]
    /\ bwd_done' = (bwd_frame = 1)
    /\ bwd_frame' = IF bwd_frame = 1 THEN bwd_frame ELSE bwd_frame - 1
    /\ UNCHANGED notMerge
    /\ UNCHANGED <<m_pc, fwd_done, fwd_links, merged, cands, fwd_frame>>

\* both runs have finished: merge their results
merge_runs ==
    /\ api = "merge" /\ m_pc = "start" /\ fwd_done /\ bwd_done
    /\ merged' = merge_links(fwd_links, bwd_links)
    /\ m_pc' = "merged"
    /\ UNCHANGED notMerge
    /\ UNCHANGED <<fwd_done, bwd_done, fwd_links, bwd_links, cands,
                   fwd_frame, bwd_frame>>

NoLinks == [s \in Steps |-> NoLink]

InitMerge ==
    /\ m_pc = "start"
    /\ fwd_done = FALSE /\ bwd_done = FALSE
    /\ fwd_links = NoLinks /\ bwd_links = NoLinks /\ merged = NoLinks
    /\ cands \in [Steps -> SUBSET (1..MaxCands)]
    /\ fwd_frame = 1 /\ bwd_frame = MaxSteps

QuietMerge ==
    /\ m_pc = "off"
    /\ fwd_done = FALSE /\ bwd_done = FALSE
    /\ fwd_links = NoLinks /\ bwd_links = NoLinks /\ merged = NoLinks
    /\ cands = [s \in Steps |-> {}]
    /\ fwd_frame = 0 /\ bwd_frame = 0

NextMerge == track_forward_using_parameters \/ track_backward_using_parameters
             \/ merge_runs

----------------------------------------------------------------------------
\* Orientation refiner.  orient is declared in binding/orientation.pxd
\* (liboptv); its behaviour follows section 4.4 of the design: masked
\* iterative least squares, stopped by a tolerance or an iteration cap, with
\* a degenerate-system failure for a singular system.

\* most reference points handed to the refiner
MaxFix == 4

\* iteration cap and update-norm tolerance of the refiner, largest first update
MaxIter == 3
Tolerance == 1
MaxNorm == 4

\* the refinable parameters of orient_par considered (orientation.pxd 17-20)
OrientFlags == {"ccflag", "xhflag", "yhflag", "k1flag"}

\* number of free parameters under the enable mask
NumFree(fl) == Cardinality(fl)

\* A test that only looks at the matrix and forgets the point count.
orient_degenerate_matrix_only(n, fl, sing) == sing

\* the system cannot be solved: fewer reference points than free parameters,
\* or a singular normal-equations matrix
orient_degenerate(n, fl, sing) == n < NumFree(fl) \/ sing

\* the calibration before any refinement
Cal0 == [p \in OrientFlags |-> 0]

\* one linearised update: every enabled parameter moves by the update
apply_update(c, fl, d) == [p \in OrientFlags |-> IF p \in fl THEN c[p] + d ELSE c[p]]

\* orient(cal_in, cpar, nfix, fix, pix, flags, sigmabeta): copy the
\* calibration and start iterating
orient_start ==
    /\ api = "orient" /\ o_pc = "entry"
    /\ cal' = cal_in
    /\ itnum' = 0
    /\ o_pc' = "iterating"
    /\ UNCHANGED notOrient
    /\ UNCHANGED <<nfix, flags, singular, contracting, norm, cal_in, o_status>>

\* the normal equations cannot be solved: fail, cal_in is not written
orient_fail_degenerate ==
    /\ api = "orient" /\ o_pc = "iterating"
    /\ orient_degenerate(nfix, flags, singular)
    /\ o_status' = "degenerate"
    /\ o_pc' = "done"
    /\ UNCHANGED notOrient
    /\ UNCHANGED <<nfix, flags, singular, contracting, norm, itnum, cal, cal_in>>

\* one iteration: solve, apply the update to the working copy
orient_iterate ==
    /\ api = "orient" /\ o_pc = "iterating"
    /\ ~orient_degenerate(nfix, flags, singular)
    /\ norm > Tolerance /\ itnum < MaxIter
    /\ cal' = apply_update(cal, flags, norm)
    /\ norm' = IF contracting THEN norm \div 2 ELSE norm
    /\ itnum' = itnum + 1
    /\ UNCHANGED notOrient
    /\ UNCHANGED <<o_pc, nfix, flags, singular, contracting, cal_in, o_status>>

\* the update norm fell below the tolerance: write the refined calibration
orient_converged ==
    /\ api = "orient" /\ o_pc = "iterating"
    /\ ~orient_degenerate(nfix, flags, singular)
    /\ norm <= Tolerance
    /\ cal_in' = cal
    /\ o_status' = "converged"
    /\ o_pc' = "done"
    /\ UNCHANGED notOrient
    /\ UNCHANGED <<nfix, flags, singular, contracting, norm, itnum, cal>>

\* A cap test that waits for the count to pass the cap.
orient_maxiter_strict ==
    /\ api = "orient" /\ o_pc = "iterating"
    /\ ~orient_degenerate(nfix, flags, singular)
    /\ norm > Tolerance /\ itnum > MaxIter
    /\ o_status' = "maxiter"
    /\ o_pc' = "done"
    /\ UNCHANGED notOrient
    /\ UNCHANGED <<nfix, flags, singular, contracting, norm, itnum, cal, cal_in>>

\* the iteration cap is reached without convergence
orient_maxiter ==
    /\ api = "orient" /\ o_pc = "iterating"
    /\ ~orient_degenerate(nfix, flags, singular)
    /\ norm > Tolerance /\ itnum >= MaxIter
    /\ o_status' = "maxiter"
    /\ o_pc' = "done"
    /\ UNCHANGED notOrient
    /\ UNCHANGED <<nfix, flags, singular, contracting, norm, itnum, cal, cal_in>>

InitOrient ==
    /\ o_pc = "entry"
    /\ nfix \in 0..MaxFix
    /\ flags \in SUBSET OrientFlags
    /\ singular \in BOOLEAN
    /\ contracting \in BOOLEAN
    /\ norm \in 0..MaxNorm
    /\ itnum = 0
    /\ cal = Cal0 /\ cal_in = Cal0
    /\ o_status = "none"

QuietOrient ==
    /\ o_pc = "off"
    /\ nfix = 0 /\ flags = {} /\ singular = FALSE /\ contracting = FALSE
    /\ norm = 0 /\ itnum = 0
    /\ cal = Cal0 /\ cal_in = Cal0
    /\ o_status = "none"

NextOrient == orient_start \/ orient_fail_degenerate \/ orient_iterate
              \/ orient_converged \/ orient_maxiter

----------------------------------------------------------------------------
\* Projection and back-projection.  img_coord and flat_image_coord
\* (binding/imgcoord.pxd) and point_position (binding/orientation.pxd) are
\* only declared: they belong to liboptv.  Their behaviour follows section
\* 4.1 of the design, on a camera at the origin that looks along +z, with
\* pixel coordinates kept in fixed point.

\* largest lateral coordinate and largest depth of a 3D point
MaxCoord == 2
MaxDepth == 3

\* pixel coordinates are kept in units of 1/SubPixel pixel
SubPixel == 8

\* focal lengths and half-widths of the sensor field of the cameras
FocalLengths == {2, 4}
FieldHalfWidths == {2, 4}

\* largest round-trip error accepted on one axis
GeomTol == 1

\* the sentinel a projection returns for a point it cannot image
Unusable == [usable |-> FALSE, x |-> 0, y |-> 0]

\* no point has been computed
NoPoint == <<0, 0, 0>>

Abs(a) == IF a < 0 THEN -a ELSE a

\* A projection that images every point, the ones behind the camera too.
img_coord_no_sentinel(pos, c) ==
    IF pos[3] = 0 THEN [usable |-> TRUE, x |-> 0, y |-> 0]
    ELSE [usable |-> TRUE,
          x |-> (SubPixel * c.cc * pos[1]) \div Abs(pos[3]),
          y |-> (SubPixel * c.cc * pos[2]) \div Abs(pos[3])]

\* img_coord(pos, cal, mm, &x, &y): the pixel of a 3D point; the sentinel for
\* a point behind the camera or outside the field.  The function returns
\* void: it has no way to report an error.
img_coord(pos, c) ==
    IF pos[3] <= 0 THEN Unusable
    ELSE IF c.cc * Abs(pos[1]) > c.field * pos[3]
            \/ c.cc * Abs(pos[2]) > c.field * pos[3] THEN Unusable
    ELSE [usable |-> TRUE,
          x |-> (SubPixel * c.cc * pos[1]) \div pos[3],
          y |-> (SubPixel * c.cc * pos[2]) \div pos[3]]

\* A back-projection that forgets the depth hint and stops at unit depth.
point_position_unit_depth(pix, c, depth) ==
    <<pix.x \div (SubPixel * c.cc), pix.y \div (SubPixel * c.cc), 1>>

\* the point of the back-projected ray of a pixel at the hinted depth
point_position(pix, c, depth) ==
    <<(pix.x * depth) \div (SubPixel * c.cc),
      (pix.y * depth) \div (SubPixel * c.cc), depth>>

\* the caller projects a candidate into the camera
geo_project ==
    /\ api = "geom" /\ g_pc = "entry"
    /\ g_pixel' = img_coord(g_pos, g_cal)
    /\ g_pc' = "projected"
    /\ UNCHANGED notGeom
    /\ UNCHANGED <<g_pos, g_cal, g_res, g_used, g_exc>>

\* the caller tests the sentinel first: an unusable projection is skipped
geo_skip_unusable ==
    /\ api = "geom" /\ g_pc = "projected"
    /\ ~g_pixel.usable
    /\ g_pc' = "done"
    /\ UNCHANGED notGeom
    /\ UNCHANGED <<g_pos, g_cal, g_pixel, g_res, g_used, g_exc>>

\* a usable pixel is used: it is back-projected to the depth of the candidate
geo_back_project ==
    /\ api = "geom" /\ g_pc = "projected"
    /\ g_pixel.usable
    /\ g_used' = TRUE
    /\ g_res' = point_position(g_pixel, g_cal, g_pos[3])
    /\ g_pc' = "done"
    /\ UNCHANGED notGeom
    /\ UNCHANGED <<g_pos, g_cal, g_pixel, g_exc>>

InitGeom ==
    /\ g_pc = "entry"
    /\ g_pos \in (-MaxCoord..MaxCoord) \X (-MaxCoord..MaxCoord) \X (-1..MaxDepth)
    /\ g_cal \in [cc : FocalLengths, field : FieldHalfWidths]
    /\ g_pixel = Unusable
    /\ g_res = NoPoint
    /\ g_used = FALSE
    /\ g_exc = "none"

QuietGeom ==
    /\ g_pc = "off"
    /\ g_pos = NoPoint
    /\ g_cal = [cc |-> 0, field |-> 0]
    /\ g_pixel = Unusable
    /\ g_res = NoPoint
    /\ g_used = FALSE
    /\ g_exc = "none"

NextGeom == geo_project \/ geo_skip_unusable \/ geo_back_project

----------------------------------------------------------------------------
\* The parameter bridge (optv.h 84-619, unnamed/part_010, and the sequence
\* and control pairs of coptv/param_bridge.pyx): every *_params_to_c
\* mallocs a struct and fills it from the dictionary params.to_c_struct()
\* returns; every *_params_from_c builds a dictionary from a struct.

\* size of one base-name buffer
SEQ_FNAME_MAX_LEN == 128

\* most cameras of a sequence
MaxCams == 2

\* A cell of a C array: written with a value, or left as malloc returned it.
Cell(v) == [w |-> TRUE, v |-> v]
UninitCell(v) == [w |-> FALSE, v |-> v]

\* reading a cell: its value, or whatever the memory held (g)
ReadCell(c, g) == IF c.w THEN c.v ELSE g

\* what a read of an uninitialised number or of an uninitialised name yields
Garbage ==
    [num : {0, 7},
     name : {[stem |-> "", len |-> 0], [stem |-> "garbage", len |-> 5]}]

\* A base name is the first len bytes of its stem.
NameLens == {4, SEQ_FNAME_MAX_LEN - 1, SEQ_FNAME_MAX_LEN}
Names == [stem : {"img/cam"}, len : NameLens]
EmptyName == [stem |-> "", len |-> 0]

Min(a, b) == IF a < b THEN a ELSE b

\* strncpy(dst, src, n); dst[n] = 0 : the first n bytes of the name at most
strncpy(name, n) == [name EXCEPT !.len = Min(name.len, n)]

\* optv.h 117-146: tracking_params_from_c reads the 13 fields back
tracking_params_from_c(c) ==
    [dvxmin |-> c.dvxmin, dvxmax |-> c.dvxmax,
     dvymin |-> c.dvymin, dvymax |-> c.dvymax,
     dvzmin |-> c.dvzmin, dvzmax |-> c.dvzmax,
     dangle |-> c.dangle, dacc |-> c.dacc, add |-> c.add,
     dsumg |-> c.dsumg, dn |-> c.dn, dnx |-> c.dnx, dny |-> c.dny]

\* unnamed/part_010 57-82: this tracking_params_from_c builds 9 keys only
tracking_params_from_c_part010(c) ==
    [dvxmin |-> c.dvxmin, dvxmax |-> c.dvxmax,
     dvymin |-> c.dvymin, dvymax |-> c.dvymax,
     dvzmin |-> c.dvzmin, dvzmax |-> c.dvzmax,
     dangle |-> c.dangle, dacc |-> c.dacc, add |-> c.add]

SequenceDicts ==
    [num_cams : 0..MaxCams, img_base_name : SeqsUpTo(Names, MaxCams),
     first : {10001}, last : {10005}]

\* optv.h 149-176: names are copied for i < num_cams and i < len(list) only,
\* each cut to SEQ_FNAME_MAX_LEN - 1 bytes
sequence_params_to_c(d) ==
    [num_cams |-> d.num_cams, first |-> d.first, last |-> d.last,
     img_base_name |->
        [i \in 1..MaxCams |->
            IF i <= d.num_cams /\ i <= Len(d.img_base_name)
            THEN Cell(strncpy(d.img_base_name[i], SEQ_FNAME_MAX_LEN - 1))
            ELSE UninitCell(EmptyName)]]

\* optv.h 179-204: num_cams names are read back
sequence_params_from_c(c, g) ==
    [num_cams |-> c.num_cams,
     img_base_name |-> [i \in 1..c.num_cams |-> ReadCell(c.img_base_name[i], g.name)],
     first |-> c.first, last |-> c.last]

\* optv.h 238-268: the three layer lists are rebuilt from entries 0 and 1
volume_params_from_c(c) ==
    [X_lay |-> <<c.X_lay[1], c.X_lay[2]>>,
     Zmin_lay |-> <<c.Zmin_lay[1], c.Zmin_lay[2]>>,
     Zmax_lay |-> <<c.Zmax_lay[1], c.Zmax_lay[2]>>,
     cnx |-> c.cnx, cny |-> c.cny, cn |-> c.cn,
     csumg |-> c.csumg, corrmin |-> c.corrmin, eps0 |-> c.eps0]

TargetDicts ==
    [gvthres : {<<9, 9, 9>>, <<9, 9, 9, 11>>, <<9, 9, 9, 11, 13>>},
     discont : {100}, nnmin : {4}, nnmax : {500}, nxmin : {2}, nxmax : {100},
     nymin : {2}, nymax : {100}, sumg_min : {150}, cr_sz : {2}]

\* optv.h 372-402: gvthres[i] is written for i < 4 and i < len(list) only
target_params_to_c(d) ==
    [gvthres |-> [i \in 1..4 |-> IF i <= Len(d.gvthres) THEN Cell(d.gvthres[i])
                                 ELSE UninitCell(0)],
     discont |-> d.discont, nnmin |-> d.nnmin, nnmax |-> d.nnmax,
     nxmin |-> d.nxmin, nxmax |-> d.nxmax, nymin |-> d.nymin, nymax |-> d.nymax,
     sumg_min |-> d.sumg_min, cr_sz |-> d.cr_sz]

\* optv.h 405-434: the four thresholds are read back
target_params_from_c(c, g) ==
    [gvthres |-> [i \in 1..4 |-> ReadCell(c.gvthres[i], g.num)],
     discont |-> c.discont, nnmin |-> c.nnmin, nnmax |-> c.nnmax,
     nxmin |-> c.nxmin, nxmax |-> c.nxmax, nymin |-> c.nymin, nymax |-> c.nymax,
     sumg_min |-> c.sumg_min, cr_sz |-> c.cr_sz]

\* the flags of orient_par (orientation.pxd 15-20)
OrientDicts ==
    [useflag : {0}, ccflag : {0, 1}, xhflag : {0, 1}, yhflag : {0},
     k1flag : {0, 1}, k2flag : {0}, k3flag : {0}, p1flag : {0}, p2flag : {0},
     scxflag : {0}, sheflag : {0}, interfflag : {0}]

\* optv.h 437-466: the 12 flags are copied
orient_params_to_c(d) ==
    [useflag |-> d.useflag, ccflag |-> d.ccflag, xhflag |-> d.xhflag,
     yhflag |-> d.yhflag, k1flag |-> d.k1flag, k2flag |-> d.k2flag,
     k3flag |-> d.k3flag, p1flag |-> d.p1flag, p2flag |-> d.p2flag,
     scxflag |-> d.scxflag, sheflag |-> d.sheflag, interfflag |-> d.interfflag]

\* optv.h 469-497: the 12 flags are read back
orient_params_from_c(c) ==
    [useflag |-> c.useflag, ccflag |-> c.ccflag, xhflag |-> c.xhflag,
     yhflag |-> c.yhflag, k1flag |-> c.k1flag, k2flag |-> c.k2flag,
     k3flag |-> c.k3flag, p1flag |-> c.p1flag, p2flag |-> c.p2flag,
     scxflag |-> c.scxflag, sheflag |-> c.sheflag, interfflag |-> c.interfflag]

\* Angles are counted in quarter turns, so that sines and cosines are integers.
QuarterTurns == 0..3
Cos4(a) == <<1, 0, -1, 0>>[(a % 4) + 1]
Sin4(a) == <<0, 1, 0, -1>>[(a % 4) + 1]

\* the rotation matrix liboptv derives from the angles omega, phi, kappa
rotation_matrix(omega, phi, kappa) ==
    LET co == Cos4(omega)  so == Sin4(omega)
        cp == Cos4(phi)    sp == Sin4(phi)
        ck == Cos4(kappa)  sk == Sin4(kappa)
    IN << << cp * ck, -(cp * sk), sp >>,
          << co * sk + so * sp * ck, co * ck - so * sp * sk, -(so * cp) >>,
          << so * sk - co * sp * ck, so * ck + co * sp * sk, co * cp >> >>

RotationMatrices ==
    {rotation_matrix(o, ph, k) : o \in {0, 1}, ph \in {0, 1}, k \in QuarterTurns}

\* the dictionaries CalOriParams.to_c_struct() may return: the angles and
\* the matrix are separate entries of ext_par
CalOriDicts ==
    [ext_par : [x0 : {0}, y0 : {0}, z0 : {100},
                omega : {0, 1}, phi : {0, 1}, kappa : QuarterTurns,
                dm : RotationMatrices],
     int_par : [xh : {0}, yh : {0}, cc : {4}],
     glass_par : [vec_x : {0}, vec_y : {0}, vec_z : {1},
                  n1 : {1}, n2 : {1}, n3 : {1}, d : {1}],
     added_par : [k1 : {0}, k2 : {0}, k3 : {0}, p1 : {0}, p2 : {0},
                  scx : {1}, she : {0}, field : {0}]]

\* optv.h 500-555: every entry is copied as it is, the nine entries of dm
\* included; nothing is derived from the angles
cal_ori_params_to_c(d) ==
    [ext_par |-> [x0 |-> d.ext_par.x0, y0 |-> d.ext_par.y0, z0 |-> d.ext_par.z0,
                  omega |-> d.ext_par.omega, phi |-> d.ext_par.phi,
                  kappa |-> d.ext_par.kappa,
                  dm |-> [i \in 1..3 |-> [j \in 1..3 |-> d.ext_par.dm[i][j]]]],
     int_par |-> d.int_par, glass_par |-> d.glass_par, added_par |-> d.added_par]

\* optv.h 558-619: the four groups are read back
cal_ori_params_from_c(c) ==
    [ext_par |-> [x0 |-> c.ext_par.x0, y0 |-> c.ext_par.y0, z0 |-> c.ext_par.z0,
                  omega |-> c.ext_par.omega, phi |-> c.ext_par.phi,
                  kappa |-> c.ext_par.kappa,
                  dm |-> [i \in 1..3 |-> [j \in 1..3 |-> c.ext_par.dm[i][j]]]],
     int_par |-> c.int_par, glass_par |-> c.glass_par, added_par |-> c.added_par]

\* coptv/param_bridge.pyx 107-132: num_cams is not assigned; a name is copied
\* for every index of the list, each cut to SEQ_FNAME_MAX_LEN - 1 bytes.  The
\* array has one slot more than the longest list, the slot the reading loop
\* stops at.
coptv_sequence_params_to_c(d) ==
    [num_cams |-> UninitCell(0), first |-> d.first, last |-> d.last,
     img_base_name |->
        [i \in 1..(MaxCams + 1) |->
            IF i <= Len(d.img_base_name)
            THEN Cell(strncpy(d.img_base_name[i], SEQ_FNAME_MAX_LEN - 1))
            ELSE UninitCell(EmptyName)]]

\* number of leading slots of an array of names that do not read as NULL;
\* a slot that was never written reads as NULL when the memory held zeros
LeadingNonNull(cells, g) ==
    Cardinality({i \in DOMAIN cells :
                    \A j \in 1..i : ReadCell(cells[j], g.name) # EmptyName})

\* coptv/param_bridge.pyx 135-163: names are read until a slot reads as NULL
\* (at most the slots of the array are followed); the dictionary has no
\* num_cams
coptv_sequence_params_from_c(c, g) ==
    [img_base_name |-> [i \in 1..LeadingNonNull(c.img_base_name, g) |->
                           ReadCell(c.img_base_name[i], g.name)],
     first |-> c.first, last |-> c.last]

\* calibration image names, one per camera
CalNames(n) == [i \in 1..n |-> [stem |-> "cal/cam", len |-> 7]]

\* the dictionaries ControlParams.to_c_struct() may return
ControlDicts ==
    [num_cams : 0..MaxCams,
     img_base_name : SeqsUpTo(Names, MaxCams),
     cal_img_base_name : {CalNames(n) : n \in 0..MaxCams},
     hp_flag : {1}, allCam_flag : {0}, tiff_flag : {1},
     imx : {1280}, imy : {1024}, pix_x : {12}, pix_y : {12}, chfield : {0},
     mm : [nlay : {1}, n1 : {1}, n2 : {<<133>>, <<133, 100, 100>>},
           n3 : {133}, d : {<<5>>, <<5, 0, 0>>}]]

\* the scalar fields and the multimedia block, written alike by both
\* control_params_to_c (optv.h 301-319, coptv/param_bridge.pyx 268-286):
\* n2[i] and d[i] are written for i < 3 and i < len(list) only
control_scalars_to_c(d) ==
    [hp_flag |-> d.hp_flag, allCam_flag |-> d.allCam_flag,
     tiff_flag |-> d.tiff_flag, imx |-> d.imx, imy |-> d.imy,
     pix_x |-> d.pix_x, pix_y |-> d.pix_y, chfield |-> d.chfield,
     mm |-> [nlay |-> d.mm.nlay, n1 |-> d.mm.n1, n3 |-> d.mm.n3,
             n2 |-> [i \in 1..3 |-> IF i <= Len(d.mm.n2) THEN Cell(d.mm.n2[i])
                                    ELSE UninitCell(0)],
             d |-> [i \in 1..3 |-> IF i <= Len(d.mm.d) THEN Cell(d.mm.d[i])
                                   ELSE UninitCell(0)]]]

\* the scalar fields and the multimedia block, read back alike by both
\* control_params_from_c (optv.h 344-365, coptv/param_bridge.pyx 314-335):
\* n2[0..2] and d[0..2] are read
control_scalars_from_c(c, g) ==
    [hp_flag |-> c.hp_flag, allCam_flag |-> c.allCam_flag,
     tiff_flag |-> c.tiff_flag, imx |-> c.imx, imy |-> c.imy,
     pix_x |-> c.pix_x, pix_y |-> c.pix_y, chfield |-> c.chfield,
     mm |-> [nlay |-> c.mm.nlay, n1 |-> c.mm.n1, n3 |-> c.mm.n3,
             n2 |-> [i \in 1..3 |-> ReadCell(c.mm.n2[i], g.num)],
             d |-> [i \in 1..3 |-> ReadCell(c.mm.d[i], g.num)]]]

\* optv.h 271-321: both lists of names are copied for i < num_cams and
\* i < len(list) only
control_params_to_c(d) ==
    [num_cams |-> d.num_cams,
     img_base_name |->
        [i \in 1..MaxCams |->
            IF i <= d.num_cams /\ i <= Len(d.img_base_name)
            THEN Cell(strncpy(d.img_base_name[i], SEQ_FNAME_MAX_LEN - 1))
            ELSE UninitCell(EmptyName)],
     cal_img_base_name |->
        [i \in 1..MaxCams |->
            IF i <= d.num_cams /\ i <= Len(d.cal_img_base_name)
            THEN Cell(strncpy(d.cal_img_base_name[i], SEQ_FNAME_MAX_LEN - 1))
            ELSE UninitCell(EmptyName)],
     rest |-> control_scalars_to_c(d)]

\* optv.h 324-369: num_cams names of each list are read back
control_params_from_c(c, g) ==
    [num_cams |-> c.num_cams,
     img_base_name |->
        [i \in 1..c.num_cams |-> ReadCell(c.img_base_name[i], g.name)],
     cal_img_base_name |->
        [i \in 1..c.num_cams |-> ReadCell(c.cal_img_base_name[i], g.name)],
     rest |-> control_scalars_from_c(c.rest, g)]

\* coptv/param_bridge.pyx 239-288: num_cams is assigned, and a name is
\* copied for every index of each list, whatever num_cams is
coptv_control_params_to_c(d) ==
    [num_cams |-> d.num_cams,
     img_base_name |->
        [i \in 1..MaxCams |->
            IF i <= Len(d.img_base_name)
            THEN Cell(strncpy(d.img_base_name[i], SEQ_FNAME_MAX_LEN - 1))
            ELSE UninitCell(EmptyName)],
     cal_img_base_name |->
        [i \in 1..MaxCams |->
            IF i <= Len(d.cal_img_base_name)
            THEN Cell(strncpy(d.cal_img_base_name[i], SEQ_FNAME_MAX_LEN - 1))
            ELSE UninitCell(EmptyName)],
     rest |-> control_scalars_to_c(d)]

\* coptv/param_bridge.pyx 291-339: the slots i < num_cams are read, and a
\* name is kept when the slot does not read as NULL
coptv_control_params_from_c(c, g) ==
    [num_cams |-> c.num_cams,
     img_base_name |->
        SelectSeq([i \in 1..c.num_cams |-> ReadCell(c.img_base_name[i], g.name)],
                  LAMBDA n : n # EmptyName),
     cal_img_base_name |->
        SelectSeq([i \in 1..c.num_cams |->
                      ReadCell(c.cal_img_base_name[i], g.name)],
                  LAMBDA n : n # EmptyName),
     rest |-> control_scalars_from_c(c.rest, g)]

\* the bridge pairs
BridgeKinds == {"tracking", "tracking_part010", "sequence", "volume", "target",
                "orient", "cal_ori", "control", "coptv_sequence",
                "coptv_control"}

\* the dictionaries each pair is exercised on
BridgeDicts(kind) ==
    CASE kind \in {"tracking", "tracking_part010"} -> TrackingDicts
      [] kind \in {"sequence", "coptv_sequence"} -> SequenceDicts
      [] kind \in {"control", "coptv_control"} -> ControlDicts
      [] kind = "volume" -> VolumeDicts
      [] kind = "target" -> TargetDicts
      [] kind = "orient" -> OrientDicts
      [] kind = "cal_ori" -> CalOriDicts

\* the struct the *_to_c function of the pair fills
ToC(kind, d) ==
    CASE kind \in {"tracking", "tracking_part010"} -> tracking_params_to_c(d)
      [] kind = "sequence" -> sequence_params_to_c(d)
      [] kind = "volume" -> volume_params_to_c(d)
      [] kind = "target" -> target_params_to_c(d)
      [] kind = "orient" -> orient_params_to_c(d)
      [] kind = "cal_ori" -> cal_ori_params_to_c(d)
      [] kind = "control" -> control_params_to_c(d)
      [] kind = "coptv_sequence" -> coptv_sequence_params_to_c(d)
      [] kind = "coptv_control" -> coptv_control_params_to_c(d)

\* the dictionary the *_from_c function of the pair builds
FromC(kind, c, g) ==
    CASE kind = "tracking" -> tracking_params_from_c(c)
      [] kind = "tracking_part010" -> tracking_params_from_c_part010(c)
      [] kind = "sequence" -> sequence_params_from_c(c, g)
      [] kind = "volume" -> volume_params_from_c(c)
      [] kind = "target" -> target_params_from_c(c, g)
      [] kind = "orient" -> orient_params_from_c(c)
      [] kind = "cal_ori" -> cal_ori_params_from_c(c)
      [] kind = "control" -> control_params_from_c(c, g)
      [] kind = "coptv_sequence" -> coptv_sequence_params_from_c(c, g)
      [] kind = "coptv_control" -> coptv_control_params_from_c(c, g)

\* c_params = <T*>malloc(sizeof(T)); fill it.  No *_to_c tests the pointer: a
\* failed malloc ends in a write through NULL.  volume_params_to_c indexes
\* the layer lists without a length test.
bridge_to_c ==
    /\ api = "bridge" /\ b_pc = "entry"
    /\ \E ok \in BOOLEAN :
          IF ~ok
          THEN /\ b_struct' = [st |-> "null", data |-> <<>>]
               /\ b_pc' = "crashed"
               /\ b_exc' = "NullWrite"
          ELSE IF b_kind = "volume" /\ VolumeListsTooShort(b_params)
          THEN /\ b_struct' = [st |-> "live", data |-> <<>>]
               /\ b_pc' = "raised"
               /\ b_exc' = "IndexError"
          ELSE /\ b_struct' = [st |-> "live", data |-> ToC(b_kind, b_params)]
               /\ b_pc' = "converted"
               /\ b_exc' = b_exc
    /\ UNCHANGED notBridge
    /\ UNCHANGED <<b_kind, b_params, b_back>>

\* params2 = *_params_from_c(c_params)
bridge_from_c ==
    /\ api = "bridge" /\ b_pc = "converted"
    /\ \E g \in Garbage : b_back' = FromC(b_kind, b_struct.data, g)
    /\ b_pc' = "back"
    /\ UNCHANGED notBridge
    /\ UNCHANGED <<b_kind, b_params, b_struct, b_exc>>

\* free(c_params)                         (docs/migration_guide.md 349)
bridge_free ==
    /\ api = "bridge" /\ b_pc = "back"
    /\ b_struct' = Free(b_struct)
    /\ b_pc' = "done"
    /\ UNCHANGED notBridge
    /\ UNCHANGED <<b_kind, b_params, b_back, b_exc>>

InitBridge ==
    /\ b_pc = "entry"
    /\ b_kind \in BridgeKinds
    /\ b_params \in BridgeDicts(b_kind)
    /\ b_struct = NoBuf
    /\ b_back = <<>>
    /\ b_exc = "none"

QuietBridge ==
    /\ b_pc = "off"
    /\ b_kind = "none"
    /\ b_params = <<>>
    /\ b_struct = NoBuf
    /\ b_back = <<>>
    /\ b_exc = "none"

NextBridge == bridge_to_c \/ bridge_from_c \/ bridge_free

----------------------------------------------------------------------------
\* Import of the package: the body of openptv/__init__.py
\* (openptv/docs/GIT_WORKFLOW.md 442-481), statement by statement.

\* most calls of using_cython() followed after an import
MaxCalls == 2

\* what importing openptv.binding.tracking_framebuf does: it succeeds, raises
\* ImportError, or raises another exception
BindingOutcomes == {"ok", "ImportError", "OtherError"}

\* the actions of the warnings filter
WarnFilters == {"default", "error", "ignore", "always", "module", "once"}

\* the names whose binding in the package namespace is followed
PackageNames == {"COORD_UNUSED", "TargetArray", "Target", "track_particles",
                 "find_correspondences", "using_cython"}

Unbound == [n \in PackageNames |-> "unbound"]

\* binding the names of the set ns to objects of the implementation impl
Bind(ns, impl, b) == [n \in PackageNames |-> IF n \in ns THEN impl ELSE b[n]]

\* lines 468-477: the names the except branch binds: none, the fallback
\* import is commented out
fallback_names(b) == b

\* from openptv.constants import (...)                           (450-454)
import_constants ==
    /\ api = "import" /\ i_pc = "start"
    /\ IF constants_ok
       THEN /\ i_bound' = Bind({"COORD_UNUSED"}, "package", i_bound)
            /\ i_pc' = "constants"
            /\ i_exc' = i_exc
       ELSE /\ i_bound' = i_bound
            /\ i_pc' = "failed"
            /\ i_exc' = "ImportError"
    /\ UNCHANGED notImport
    /\ UNCHANGED <<binding, constants_ok, warn_filter, i_using_cython, i_warned,
                   i_calls, i_ret>>

\* _using_cython = False                                          (457-459)
import_flags ==
    /\ api = "import" /\ i_pc = "constants"
    /\ i_using_cython' = FALSE
    /\ i_pc' = "flags"
    /\ UNCHANGED notImport
    /\ UNCHANGED <<binding, constants_ok, warn_filter, i_bound, i_warned, i_exc,
                   i_calls, i_ret>>

\* try: from openptv.binding.tracking_framebuf import TargetArray, Target;
\*      _using_cython = True                                      (462-466)
\* An exception that is no ImportError leaves the module body.
import_binding ==
    /\ api = "import" /\ i_pc = "flags"
    /\ CASE binding = "ok" ->
              /\ i_bound' = Bind({"TargetArray", "Target"}, "cython", i_bound)
              /\ i_using_cython' = TRUE
              /\ i_pc' = "tried"
              /\ i_exc' = i_exc
         [] binding = "ImportError" ->
              /\ i_pc' = "except"
              /\ UNCHANGED <<i_bound, i_using_cython, i_exc>>
         [] binding = "OtherError" ->
              /\ i_pc' = "failed"
              /\ i_exc' = "OtherError"
              /\ UNCHANGED <<i_bound, i_using_cython>>
    /\ UNCHANGED notImport
    /\ UNCHANGED <<binding, constants_ok, warn_filter, i_warned, i_calls, i_ret>>

\* except ImportError as e: warnings.warn(...); _using_cython = False
\* Under the filter "error" the warning is raised as an exception.  (468-477)
import_fallback ==
    /\ api = "import" /\ i_pc = "except"
    /\ IF warn_filter = "error"
       THEN /\ i_pc' = "failed"
            /\ i_exc' = "UserWarning"
            /\ UNCHANGED <<i_bound, i_using_cython, i_warned>>
       ELSE /\ i_warned' = (warn_filter # "ignore")
            /\ i_bound' = fallback_names(i_bound)
            /\ i_using_cython' = FALSE
            /\ i_pc' = "tried"
            /\ i_exc' = i_exc
    /\ UNCHANGED notImport
    /\ UNCHANGED <<binding, constants_ok, warn_filter, i_calls, i_ret>>

\* def using_cython(): ...   ends the module body                  (479-481)
import_done ==
    /\ api = "import" /\ i_pc = "tried"
    /\ i_bound' = Bind({"using_cython"}, "package", i_bound)
    /\ i_pc' = "imported"
    /\ UNCHANGED notImport
    /\ UNCHANGED <<binding, constants_ok, warn_filter, i_using_cython, i_warned,
                   i_exc, i_calls, i_ret>>

\* a caller evaluates openptv.using_cython(): return _using_cython   (481)
using_cython ==
    /\ api = "import" /\ i_pc = "imported"
    /\ i_calls < MaxCalls
    /\ i_ret' = i_using_cython
    /\ i_calls' = i_calls + 1
    /\ UNCHANGED notImport
    /\ UNCHANGED <<i_pc, binding, constants_ok, warn_filter, i_using_cython,
                   i_bound, i_warned, i_exc>>

InitImport ==
    /\ i_pc = "start"
    /\ binding \in BindingOutcomes
    /\ constants_ok \in BOOLEAN
    /\ warn_filter \in WarnFilters
    /\ i_using_cython = FALSE
    /\ i_bound = Unbound
    /\ i_warned = FALSE
    /\ i_exc = "none"
    /\ i_calls = 0
    /\ i_ret = FALSE

QuietImport ==
    /\ i_pc = "off"
    /\ binding = "ok"
    /\ constants_ok = TRUE
    /\ warn_filter = "default"
    /\ i_using_cython = FALSE
    /\ i_bound = Unbound
    /\ i_warned = FALSE
    /\ i_exc = "none"
    /\ i_calls = 0
    /\ i_ret = FALSE

NextImport == import_constants \/ import_flags \/ import_binding
              \/ import_fallback \/ import_done \/ using_cython

----------------------------------------------------------------------------
\* Specifications: one per entry point; the other entry points stay quiet.

CorrInit ==
    /\ api = "corr"
    /\ InitCorr /\ QuietTrack /\ QuietFwd /\ QuietMerge
    /\ QuietOrient /\ QuietGeom /\ QuietBridge /\ QuietImport

SpecCorr == CorrInit /\ [][NextCorr]_vars

TrackInit ==
    /\ api = "track"
    /\ QuietCorr /\ InitTrack /\ QuietFwd /\ QuietMerge
    /\ QuietOrient /\ QuietGeom /\ QuietBridge /\ QuietImport

SpecTrack == TrackInit /\ [][NextTrack]_vars

FwdInit ==
    /\ api = "fwd"
    /\ QuietCorr /\ QuietTrack /\ InitFwd /\ QuietMerge
    /\ QuietOrient /\ QuietGeom /\ QuietBridge /\ QuietImport

SpecFwd == FwdInit /\ [][NextFwd]_vars

MergeInit ==
    /\ api = "merge"
    /\ QuietCorr /\ QuietTrack /\ QuietFwd /\ InitMerge
    /\ QuietOrient /\ QuietGeom /\ QuietBridge /\ QuietImport

SpecMerge == MergeInit /\ [][NextMerge]_vars

OrientInit ==
    /\ api = "orient"
    /\ QuietCorr /\ QuietTrack /\ QuietFwd /\ QuietMerge
    /\ InitOrient /\ QuietGeom /\ QuietBridge /\ QuietImport

SpecOrient == OrientInit /\ [][NextOrient]_vars

\* orient is one sequential C call: while a step of it is possible, it is
\* taken
SpecOrientFair == OrientInit /\ [][NextOrient]_vars /\ WF_vars(NextOrient)

GeomInit ==
    /\ api = "geom"
    /\ QuietCorr /\ QuietTrack /\ QuietFwd /\ QuietMerge
    /\ QuietOrient /\ InitGeom /\ QuietBridge /\ QuietImport

SpecGeom == GeomInit /\ [][NextGeom]_vars

BridgeInit ==
    /\ api = "bridge"
    /\ QuietCorr /\ QuietTrack /\ QuietFwd /\ QuietMerge
    /\ QuietOrient /\ QuietGeom /\ InitBridge /\ QuietImport

SpecBridge == BridgeInit /\ [][NextBridge]_vars

ImportInit ==
    /\ api = "import"
    /\ QuietCorr /\ QuietTrack /\ QuietFwd /\ QuietMerge
    /\ QuietOrient /\ QuietGeom /\ QuietBridge /\ InitImport

SpecImport == ImportInit /\ [][NextImport]_vars

Init == CorrInit \/ TrackInit \/ FwdInit \/ MergeInit \/ OrientInit
        \/ GeomInit \/ BridgeInit \/ ImportInit

Next == NextCorr \/ NextTrack \/ NextFwd \/ NextMerge \/ NextOrient
        \/ NextGeom \/ NextBridge \/ NextImport

Spec == Init /\ [][Next]_vars

----------------------------------------------------------------------------
\* C1  Exclusivity: in the result of find_correspondences_py every Target
\* (camera, detection index) is referenced by at most one accepted
\* correspondence row, for every input pair of point arrays.
Refs(cam, t) == {r \in DOMAIN c_result : c_result[r][cam] = t}

C1_TargetUsedAtMostOnce ==
    \A cam \in 1..2 : \A r \in DOMAIN c_result :
        Cardinality(Refs(cam, c_result[r][cam])) <= 1

\* One detection of camera 1 coincides with two detections of camera 2 (an
\* ambiguous match) and the call has returned normally.
C1_Witness ==
    /\ c_pc = "done" /\ c_exc = "none"
    /\ \E i \in DOMAIN points1 : \E j1 \in DOMAIN points2 : \E j2 \in DOMAIN points2 :
          j1 # j2 /\ points2[j1] = points1[i] /\ points2[j2] = points1[i]

----------------------------------------------------------------------------
\* Scenario helpers for the tracking claims

\* number of frames of the tracking scenarios (sequence first..last)
ScenarioFrames == 5

\* one particle, one position per frame, the same non-zero step between any
\* two consecutive frames, the step no longer than the linking distance
ConstantVelocity(parts, mld) ==
    /\ Len(parts) >= 2
    /\ Norm2(Sub3(parts[2], parts[1])) > 0
    /\ Norm2(Sub3(parts[2], parts[1])) <= mld * mld
    /\ \A k \in 2..Len(parts) : Sub3(parts[k], parts[k - 1]) = Sub3(parts[2], parts[1])

\* the position histories of a list of trajectories of particle indices
PosHist(trajs, parts) ==
    {[k \in DOMAIN trajs[t] |-> parts[trajs[t][k] + 1]] : t \in DOMAIN trajs}

\* C4  Scenario B: one particle moving at constant velocity inside the bounds
\* over 5 frames, one candidate per frame: the tracking run returns exactly
\* one trajectory, and it links the 5 candidates in frame order.
C4_ConstantVelocityLinked ==
    (/\ t_pc = "done" /\ t_exc = "none" /\ t_run = 1
     /\ Len(particles) = ScenarioFrames
     /\ ConstantVelocity(particles, max_link_distance))
    => t_result = << [k \in 1..ScenarioFrames |-> k - 1] >>

\* C8  The trajectories and their position histories do not depend on the
\* order in which the candidates are enumerated: the run on the reordered
\* array yields the same set of position histories as the first run.
C8_OrderIndependent ==
    (t_pc = "done" /\ t_exc = "none" /\ t_run = 2)
    => PosHist(t_result, particles) = PosHist(t_first, particles0)

\* The second run has returned for a really reordered array in which some
\* particle has two other particles at exactly the same distance (a tie).
C8_Witness ==
    /\ t_pc = "done" /\ t_exc = "none" /\ t_run = 2
    /\ particles # particles0
    /\ \E a \in DOMAIN particles : \E b \in DOMAIN particles : \E c \in DOMAIN particles :
          /\ a # b /\ a # c /\ b # c
          /\ particles[b] # particles[c]
          /\ Norm2(Sub3(particles[b], particles[a])) = Norm2(Sub3(particles[c], particles[a]))

----------------------------------------------------------------------------
\* Configuration helpers for the forward-run claims

\* some min above its max in the tracking or the volume configuration
Contradictory(tp, vp) ==
    \/ tp.dvxmin > tp.dvxmax \/ tp.dvymin > tp.dvymax \/ tp.dvzmin > tp.dvzmax
    \/ \E i \in 1..2 : vp.Zmin_lay[i] > vp.Zmax_lay[i]

\* the displacement v of one frame step lies inside the velocity limits
WithinVelocityLimits(v, tp) ==
    /\ tp.dvxmin <= v[1] /\ v[1] <= tp.dvxmax
    /\ tp.dvymin <= v[2] /\ v[2] <= tp.dvymax
    /\ tp.dvzmin <= v[3] /\ v[3] <= tp.dvzmax

\* Scenario C: 5 frames, the particle present in frames 1 to 3 only
DisappearsAfterThree(tgts) ==
    /\ Len(tgts) = ScenarioFrames
    /\ \A k \in 1..ScenarioFrames : Len(tgts[k]) = (IF k <= 3 THEN 1 ELSE 0)

\* a candidate in a frame whose previous frame holds no candidate at all: no
\* trajectory is alive that could consume it
HasUnconsumedCandidate(tgts) ==
    \E k \in 2..Len(tgts) : tgts[k] # <<>> /\ tgts[k - 1] = <<>>

\* C5  Scenario C: a particle present only in frames 1 to 3 of a 5-frame
\* sequence yields one terminated (lost) trajectory with exactly 3 steps,
\* that is 2 links, reported by the forward run.
C5_LostAfterThreeSteps ==
    (/\ f_pc = "done"
     /\ DisappearsAfterThree(targets)
     /\ ~Contradictory(track_params, vol_params)
     /\ WithinVelocityLimits(FrameStep, track_params))
    => (results.links = 2 /\ results.lost = 1)

\* C6  With the particle-addition flag enabled, a candidate that no existing
\* trajectory consumes starts a new trajectory: the forward run reports at
\* least one added track.
C6_AddFlagStartsTrajectory ==
    (/\ f_pc = "done"
     /\ track_params.add = 1
     /\ ~Contradictory(track_params, vol_params)
     /\ HasUnconsumedCandidate(targets))
    => results.added >= 1

\* C7  A configuration with contradictory bounds is rejected at conversion:
\* the tracking run is never started with such a configuration.
C7_ContradictoryConfigRejected ==
    run # "none" => ~Contradictory(track_params, vol_params)

----------------------------------------------------------------------------
\* C9  The merged result holds, for every trajectory step, the link both
\* directions agree on when they agree and the forward run's link otherwise;
\* a link found only by the backward run never appears in it.
C9_MergePrefersForward ==
    m_pc = "merged" =>
        \A s \in Steps :
            /\ fwd_links[s] = bwd_links[s] => merged[s] = bwd_links[s]
            /\ fwd_links[s] # bwd_links[s] => merged[s] = fwd_links[s]
            /\ (bwd_links[s] # NoLink /\ fwd_links[s] # bwd_links[s])
                  => merged[s] # bwd_links[s]

\* Merged runs with one step both agree on, one step linked only by the
\* backward run and one step on which the two runs disagree.
C9_Witness ==
    /\ m_pc = "merged"
    /\ \E s \in Steps : fwd_links[s] # NoLink /\ fwd_links[s] = bwd_links[s]
    /\ \E s \in Steps : fwd_links[s] = NoLink /\ bwd_links[s] # NoLink
    /\ \E s \in Steps : fwd_links[s] # NoLink /\ bwd_links[s] # NoLink
                        /\ fwd_links[s] # bwd_links[s]

\* C10  Given fewer reference points than free parameters, or an otherwise
\* singular normal-equations matrix, the refiner ends in the degenerate-system
\* failure and the calibration keeps its values.
C10_DegenerateFails ==
    (o_pc = "done" /\ (nfix < NumFree(flags) \/ singular))
    => (o_status = "degenerate" /\ cal_in = Cal0)

\* The refiner has ended on a regular matrix with too few reference points,
\* on data whose first update is above the tolerance.
C10_Witness ==
    /\ o_pc = "done"
    /\ ~singular /\ nfix > 0 /\ nfix < NumFree(flags)
    /\ norm > Tolerance

----------------------------------------------------------------------------
OutsideField(pos, c) ==
    /\ pos[3] > 0
    /\ \/ c.cc * Abs(pos[1]) > c.field * pos[3]
       \/ c.cc * Abs(pos[2]) > c.field * pos[3]

C13_MatrixMatchesAngles ==
    (b_kind = "cal_ori" /\ b_pc \in {"converted", "back"})
    => b_struct.data.ext_par.dm =
          rotation_matrix(b_struct.data.ext_par.omega, b_struct.data.ext_par.phi,
                          b_struct.data.ext_par.kappa)

\* C14  No step of track_forward_with_params changes the TrackingParams or
\* the VolumeParams it was given, on the normal path and on the paths that
\* end in an error.
C14_ConfigReadOnly ==
    [][track_params' = track_params /\ vol_params' = vol_params]_vars

\* The call has returned for a configuration with a min above its max, which
\* a normalising implementation would rewrite.
C14_Witness ==
    /\ f_pc = "done" /\ f_exc = "none"
    /\ Contradictory(track_params, vol_params)
    /\ c_track_params.st = "freed" /\ c_vol_params.st = "freed"

\* C15  When the import of the Cython binding fails with ImportError and the
\* package import completes, track_particles and find_correspondences are
\* bound to the pure-Python functions and using_cython() is False; when the
\* binding import succeeds using_cython() is True.
C15_FallbackBindsPurePython ==
    /\ (i_pc = "imported" /\ binding = "ImportError")
          => (/\ i_bound["track_particles"] = "python"
              /\ i_bound["find_correspondences"] = "python"
              /\ ~i_using_cython)
    /\ (i_pc = "imported" /\ i_calls > 0) => (i_ret = (binding = "ok"))

\* C16  For every bridge pair, the dictionary *_from_c builds from the
\* struct *_to_c filled equals the dictionary to_c_struct() returned.
C16_RoundTripLossless ==
    b_pc \in {"back", "done"} => b_back = b_params

\* the links of a run that steps through every frame: one per pair of
\* consecutive frames that both hold the particle, its step within the limits
LinksOfRun(tgts, tp) ==
    Cardinality({k \in 1..(Len(tgts) - 1) :
                    /\ tgts[k] # <<>> /\ tgts[k + 1] # <<>>
                    /\ WithinVelocityLimits(Sub3(tgts[k + 1][1], tgts[k][1]), tp)})

\* C17  The 'links' entry track_forward_with_params returns is the number
\* of links of a forward run over every frame of the targets.
C17_ResultsCountTheRun ==
    (f_pc = "done" /\ ~Contradictory(track_params, vol_params))
    => results.links = LinksOfRun(targets, track_params)

\* C18  find_correspondences_py returns an array of shape (k, 2), k the count
\* the C function reported, whose rows are index pairs into the two inputs;
\* for k = 0 the shape is (0, 2).
C18_ShapeIsKByTwo ==
    c_pc = "done" =>
        /\ c_shape = <<num_correspondences, 2>>
        /\ Len(c_result) = num_correspondences
        /\ \A r \in DOMAIN c_result :
              /\ c_result[r][1] \in 0..(Len(points1) - 1)
              /\ c_result[r][2] \in 0..(Len(points2) - 1)

\* C19  A trajectory whose only qualifying candidate is the next position of
\* the particle links it: on one particle moving at constant velocity within
\* the linking distance, every position is linked to its predecessor.
C19_SingleCandidateLinked ==
    (/\ t_pc = "done" /\ t_exc = "none" /\ t_run = 1
     /\ ConstantVelocity(particles, max_link_distance))
    => \A k \in 2..Len(particles) :
          \E t \in DOMAIN t_result : \E i \in 1..(Len(t_result[t]) - 1) :
              t_result[t][i] = k - 2 /\ t_result[t][i + 1] = k - 1

----------------------------------------------------------------------------
\* C21  The forward and the backward run share no mutable state: with their
\* frame steps interleaved in any order, the forward result, the backward
\* result and the merged result are those of one run made to completion and
\* then the other.
C21_InterleavingIsSequential ==
    /\ \A s \in Steps :
          (fwd_done \/ s < fwd_frame) =>
              fwd_links[s] = forward_alone(cands, s)
    /\ \A s \in Steps :
          (bwd_done \/ s > bwd_frame) =>
              bwd_links[s] = backward_alone(cands, s)
    /\ m_pc = "merged" =>
          merged = merge_links([s \in Steps |-> forward_alone(cands, s)],
                               [s \in Steps |-> backward_alone(cands, s)])

\* Two runs in the middle of an interleaving: neither has finished, and a
\* frame both have already handled is linked differently by the two.
C21_Witness ==
    /\ api = "merge" /\ ~fwd_done /\ ~bwd_done
    /\ \E s \in Steps :
          /\ s < fwd_frame /\ s > bwd_frame
          /\ fwd_links[s] # NoLink /\ bwd_links[s] # NoLink
          /\ fwd_links[s] # bwd_links[s]

----------------------------------------------------------------------------
\* C24  Every run of the refiner terminates: it iterates only while the
\* update norm is above the tolerance and the iteration count below the cap,
\* so it stops at the first iteration whose norm is within the tolerance and
\* otherwise at the cap.
C24_RefinerTerminates ==
    /\ <>(o_pc = "done")
    /\ [](itnum <= MaxIter)
    /\ [](o_status = "converged" => norm <= Tolerance)
    /\ [](o_status = "maxiter" => norm > Tolerance /\ itnum = MaxIter)
    /\ [](o_pc = "iterating" /\ itnum > 0 /\ norm <= Tolerance
             => ~ENABLED orient_iterate)

\* A run that never converges and was stopped by the iteration cap.
C24_Witness ==
    /\ o_pc = "done" /\ o_status = "maxiter"
    /\ ~contracting /\ itnum = MaxIter

----------------------------------------------------------------------------
\* C26  In track_particles_py and find_correspondences_py every buffer
\* obtained from malloc has been freed when the call has ended, by a return
\* or by an exception, and no buffer is handed to the C function after it
\* was freed.
C26_BuffersFreedOnEveryPath ==
    /\ c_pc \in {"done", "raised"} =>
          c_points1.st \in {"null", "freed"} /\ c_points2.st \in {"null", "freed"}
    /\ t_pc \in {"done", "raised"} => c_particles.st \in {"null", "freed"}
    /\ c_pc = "called" => c_points1.st = "live" /\ c_points2.st = "live"
    /\ t_pc = "called" => c_particles.st = "live"

----------------------------------------------------------------------------
\* C27  track_forward_with_params releases each resource it acquired exactly
\* once on every path: when the call has ended, by a return or by an
\* exception, neither struct is still allocated and a started run has been
\* finished; the C functions are handed live structs only.
C27_ForwardReleasesEverything ==
    /\ f_pc \in {"done", "raised"} =>
          /\ c_track_params.st \in {"unalloc", "null", "freed"}
          /\ c_vol_params.st \in {"unalloc", "null", "freed"}
          /\ run \in {"none", "finished"}
    /\ f_pc \in {"started", "results", "finished"} =>
          c_track_params.st = "live" /\ c_vol_params.st = "live"

----------------------------------------------------------------------------
\* C28  track_particles_py on an array of zero particles returns the empty
\* list, and find_correspondences_py with zero points in either camera
\* returns the empty result; neither call ends in an error, whatever malloc
\* returns for the zero-byte request.
C28_EmptyInputNeverFails ==
    /\ (t_pc \in {"done", "raised"} /\ Len(particles) = 0) =>
          t_pc = "done" /\ t_exc = "none" /\ t_result = <<>>
    /\ (/\ c_pc \in {"done", "raised"}
        /\ Len(points1) = 0 \/ Len(points2) = 0
        /\ HasColumns(points1, 2) /\ HasColumns(points2, 2)
        /\ Len(points1) > 0 => c_points1.st # "null"
        /\ Len(points2) > 0 => c_points2.st # "null") =>
          c_pc = "done" /\ c_exc = "none" /\ c_result = <<>>

----------------------------------------------------------------------------
\* the name slots a struct of the pair holds, per list of base names
NameSlots(kind, c) ==
    CASE kind \in {"sequence", "coptv_sequence"} -> {c.img_base_name}
      [] kind \in {"control", "coptv_control"} ->
            {c.img_base_name, c.cal_img_base_name}
      [] OTHER -> {}

\* C29  For every parameter type, every struct field *_from_c reads was
\* assigned by *_to_c: the dictionary *_from_c builds from a converted
\* struct does not depend on what the memory held before the conversion.
C29_FromCReadsOnlyAssigned ==
    b_pc = "converted" =>
        \A g1 \in Garbage : \A g2 \in Garbage :
            FromC(b_kind, b_struct.data, g1) = FromC(b_kind, b_struct.data, g2)

\* C30  The sequence and control bridge functions, binding and coptv, write
\* a base name only at the indices i < num_cams, and every name they write
\* has at most SEQ_FNAME_MAX_LEN - 1 bytes before its terminator.
C30_NamesWithinNumCams ==
    b_pc = "converted" =>
        \A slots \in NameSlots(b_kind, b_struct.data) : \A i \in DOMAIN slots :
            slots[i].w => /\ i <= b_params.num_cams
                          /\ slots[i].v.len <= SEQ_FNAME_MAX_LEN - 1

====
